---- MODULE Spec2Model ----
(***************************************************************************)
(* Model of package appconfig (src/config.go, the last revision in the     *)
(* file, lines 553-1046): NewConfig and the helpers it calls, and the      *)
(* accessors of Config.                                                    *)
(*                                                                         *)
(* Go strings are sequences of one-character strings, so that Split,      *)
(* TrimPrefix, ParseBool and Atoi are computed character by character.     *)
(* A Go interface{} value is a record with a type tag t and one payload    *)
(* field per dynamic type (s string, i int/float64, b bool, m map).        *)
(* A Go map is a function with a finite domain; reading a missing key      *)
(* gives the zero value.                                                   *)
(***************************************************************************)
EXTENDS Integers, Sequences, FiniteSets, TLC

\* ------------------------------------------------------------------ bounds
\* Longest argument list (os.Args[1:]) the model explores.
MaxArgs == 2

\* ------------------------------------------------------- program constants
\* const default_prefix = "-"
default_prefix == <<"-">>

\* ParamType (iota)
PARAM_STRING == 0
PARAM_INT == 1
PARAM_BOOL == 2
PARAM_OBJECT == 3
PARAM_CONFIG_READ_ENV == 4
PARAM_CONFIG_JSON_FILE == 5
PARAM_CONFIG_JSON_STDIN == 6
PARAM_CONFIG_NODE == 7
PARAM_USAGE == 8

\* Largest value of Go's int where strconv.IntSize = 32 (GOARCH=386, arm).
\* strconv.Atoi clamps to it on a range error; a 64-bit build clamps the same
\* way at 2^63-1.
IntMax == 2147483647
IntMin == (0 - IntMax) - 1

\* ------------------------------------------------------------ Go values
EmptyMap == <<>>
Nil == [t |-> "nil", s |-> <<>>, i |-> 0, b |-> FALSE, m |-> EmptyMap]
StrV(s) == [t |-> "string", s |-> s, i |-> 0, b |-> FALSE, m |-> EmptyMap]
IntV(i) == [t |-> "int", s |-> <<>>, i |-> i, b |-> FALSE, m |-> EmptyMap]
\* encoding/json decodes every JSON number into a float64
FloatV(i) == [t |-> "float64", s |-> <<>>, i |-> i, b |-> FALSE, m |-> EmptyMap]
BoolV(b) == [t |-> "bool", s |-> <<>>, i |-> 0, b |-> b, m |-> EmptyMap]
\* encoding/json decodes a JSON object into a map[string]interface{}
MapV(m) == [t |-> "map[string]interface {}", s |-> <<>>, i |-> 0, b |-> FALSE, m |-> m]

\* m[k] on a map[string]interface{}: nil when the key is missing
MapGet(m, k) == IF k \in DOMAIN m THEN m[k] ELSE Nil
\* m[k] on a map[string]string: "" when the key is missing
StrGet(m, k) == IF k \in DOMAIN m THEN m[k] ELSE <<>>
\* MapPut that keeps the entry a key already has
MapPutKeepsFirst(m, k, v) ==
    [x \in (DOMAIN m) \cup {k} |-> IF x \in DOMAIN m THEN m[x] ELSE v]
\* m[k] = v on a map
MapPut(m, k, v) == [x \in (DOMAIN m) \cup {k} |-> IF x = k THEN v ELSE m[x]]

\* ------------------------------------------------------- library functions
\* strings.HasPrefix
HasPrefix(s, prefix) ==
    /\ Len(prefix) <= Len(s)
    /\ SubSeq(s, 1, Len(prefix)) = prefix

\* strings.TrimPrefix(s, prefix)
TrimPrefix(s, prefix) ==
    IF HasPrefix(s, prefix) THEN SubSeq(s, Len(prefix) + 1, Len(s)) ELSE s

\* strings.Split(s, "="): every "=" separates two fields
RECURSIVE SplitFrom(_, _, _)
SplitFrom(s, i, cur) ==
    IF i > Len(s) THEN <<cur>>
    ELSE IF s[i] = "=" THEN <<cur>> \o SplitFrom(s, i + 1, <<>>)
    ELSE SplitFrom(s, i + 1, Append(cur, s[i]))

Split(s) == SplitFrom(s, 1, <<>>)

\* strconv.ParseBool: [value, err]
TrueStrings ==
    { <<"1">>, <<"t">>, <<"T">>, <<"T","R","U","E">>, <<"t","r","u","e">>,
      <<"T","r","u","e">> }
FalseStrings ==
    { <<"0">>, <<"f">>, <<"F">>, <<"F","A","L","S","E">>,
      <<"f","a","l","s","e">>, <<"F","a","l","s","e">> }

ParseBool(str) ==
    IF str \in TrueStrings THEN [value |-> TRUE, err |-> FALSE]
    ELSE IF str \in FalseStrings THEN [value |-> FALSE, err |-> FALSE]
    ELSE [value |-> FALSE, err |-> TRUE]

Digits == {"0", "1", "2", "3", "4", "5", "6", "7", "8", "9"}
DigitVal(c) ==
    CASE c = "0" -> 0 [] c = "1" -> 1 [] c = "2" -> 2 [] c = "3" -> 3
      [] c = "4" -> 4 [] c = "5" -> 5 [] c = "6" -> 6 [] c = "7" -> 7
      [] c = "8" -> 8 [] c = "9" -> 9

\* strconv.ParseUint on the digits, stopping at the cutoff: -1 on a range error
RECURSIVE ParseDigits(_, _, _, _)
ParseDigits(ds, i, n, max) ==
    IF i > Len(ds) THEN n
    ELSE IF n > (max - DigitVal(ds[i])) \div 10 THEN -1
    ELSE ParseDigits(ds, i + 1, n * 10 + DigitVal(ds[i]), max)

\* ds without its leading zeros
RECURSIVE StripZeros(_)
StripZeros(ds) ==
    IF Len(ds) > 1 /\ ds[1] = "0" THEN StripZeros(Tail(ds)) ELSE ds

\* the digits of IntMax + 1, the magnitude of the smallest int
MinIntDigits == <<"2", "1", "4", "7", "4", "8", "3", "6", "4", "8">>

\* strconv.Atoi: [value, err]; a syntax error gives 0, a range error the
\* nearest int
Atoi(str) ==
    LET neg == Len(str) > 0 /\ str[1] = "-"
        signed == Len(str) > 0 /\ str[1] \in {"+", "-"}
        ds == IF signed THEN Tail(str) ELSE str
    IN  IF Len(ds) = 0 \/ \E k \in 1..Len(ds) : ds[k] \notin Digits
        THEN [value |-> 0, err |-> TRUE]
        ELSE LET un == ParseDigits(ds, 1, 0, IntMax)
             IN  IF un # -1
                 THEN [value |-> IF neg THEN 0 - un ELSE un, err |-> FALSE]
                 ELSE IF neg /\ StripZeros(ds) = MinIntDigits
                 THEN [value |-> IntMin, err |-> FALSE]
                 ELSE [value |-> IF neg THEN IntMin ELSE IntMax, err |-> TRUE]

\* ------------------------------------------------------------ the catalog
\* type Param struct; Validate names the validator function, "nil" for none
Param(type, default, required, prefix, validate) ==
    [Type |-> type, Default |-> default, Required |-> required,
     PrefixOverride |-> prefix, Validate |-> validate]

\* the validator functions the catalogs below install in Param.Validate
Validator(id, v) ==
    CASE id = "positive" -> v.t = "int" /\ v.i > 0
      [] id = "nonEmpty" -> v.t = "string" /\ v.s # <<>>
      [] id = "isObject" -> v.t = "map[string]interface {}"
      [] id = "positiveNumber" -> v.t \in {"int", "float64"} /\ v.i > 0

\* ------------------------------------------------------------------ inputs
\* parameter names, switch prefixes and raw values, as Go strings
n_port == <<"p", "o", "r", "t">>
n_debug == <<"d", "e", "b", "u", "g">>
n_help == <<"h", "e", "l", "p">>
n_timeout == <<"t", "i", "m", "e", "o", "u", "t">>
n_config == <<"c", "o", "n", "f", "i", "g">>
n_node == <<"n", "o", "d", "e">>
n_env == <<"e", "n", "v">>
n_stdin == <<"s", "t", "d", "i", "n">>
n_addr == <<"a", "d", "d", "r">>
n_bogus == <<"b", "o", "g", "u", "s">>
n_obj == <<"o", "b", "j">>
n_por == <<"p", "o", "r">>
n_ports == <<"p", "o", "r", "t", "s">>
s_true == <<"t", "r", "u", "e">>
s_false == <<"f", "a", "l", "s", "e">>
s_maybe == <<"m", "a", "y", "b", "e">>
s_1 == <<"1">>
s_7 == <<"7">>
s_0 == <<"0">>
s_x == <<"x">>
s_5000 == <<"5", "0", "0", "0">>
s_big == <<"2", "1", "4", "7", "4", "8", "3", "6", "4", "8">>
s_p8 == <<":", "8">>
s_p7 == <<":", "7">>
s_p9090 == <<":", "9", "0", "9", "0">>
s_p1 == <<":", "1">>
s_p5 == <<":", "5">>
s_p8080 == <<":", "8", "0", "8", "0">>
s_c == <<"c">>
s_app == <<"a", "p", "p">>
s_web == <<"w", "e", "b">>
s_a == <<"a">>
s_ab == <<"a", "=", "b">>
s_z == <<"z">>
dash2 == <<"-", "-">>
eq == <<"=">>

\* the content of a file or of standard input: valid is whether
\* json.Decoder.Decode into a map[string]interface{} succeeds, doc the map
FileOK(doc) == [valid |-> TRUE, doc |-> doc]
FileBad == [valid |-> FALSE, doc |-> EmptyMap]

\* command-line switches
Bare(prefix, name) == prefix \o name
WithValue(prefix, name, value) == prefix \o name \o eq \o value

\* Catalog of example/main.go, without its usage flag: a document file with
\* a root node, a required string and a "--" boolean.
CatalogExample ==
    (n_config :> Param(PARAM_CONFIG_JSON_FILE, StrV(s_c), FALSE, <<>>, "nil"))
    @@ (n_node :> Param(PARAM_CONFIG_NODE, StrV(s_app), FALSE, <<>>, "nil"))
    @@ (n_port :> Param(PARAM_STRING, Nil, TRUE, <<>>, "nil"))
    @@ (n_debug :> Param(PARAM_BOOL, BoolV(FALSE), FALSE, dash2, "nil"))

\* {"app": {"port": ":9090", "debug": true}, "port": ":1", "web": "x"}
DocExample ==
    (s_app :> MapV((n_port :> StrV(s_p9090)) @@ (n_debug :> BoolV(TRUE))))
    @@ (n_port :> StrV(s_p1))
    @@ (s_web :> StrV(s_x))

\* {"port": ":1"}
DocNoApp == (n_port :> StrV(s_p1))

ScenarioExample ==
    [params |-> CatalogExample,
     tokens |-> { Bare(dash2, n_debug),
                  WithValue(default_prefix, n_node, <<>>),
                  WithValue(default_prefix, n_node, s_web),
                  Bare(dash2, n_bogus) },
     environs |-> { EmptyMap },
     files |-> { (s_c :> FileOK(DocExample)), EmptyMap,
                 (s_c :> FileOK(DocNoApp)), (s_c :> FileBad) },
     stdins |-> { FileBad }]

\* A service with a usage flag, a validated int, a required string that
\* has no default, and a document file.
CatalogService ==
    (n_timeout :> Param(PARAM_INT, IntV(1000), FALSE, <<>>, "positive"))
    @@ (n_help :> Param(PARAM_USAGE, BoolV(FALSE), FALSE, dash2, "nil"))
    @@ (n_addr :> Param(PARAM_STRING, Nil, TRUE, <<>>, "nil"))
    @@ (n_config :> Param(PARAM_CONFIG_JSON_FILE, StrV(s_c), FALSE, <<>>, "nil"))

\* {"timeout": 30}
DocService == (n_timeout :> FloatV(30))

ScenarioService ==
    [params |-> CatalogService,
     tokens |-> { Bare(dash2, n_help),
                  WithValue(dash2, n_help, s_false),
                  WithValue(dash2, n_help, s_maybe),
                  WithValue(default_prefix, n_timeout, s_0),
                  WithValue(default_prefix, n_addr, s_a),
                  Bare(dash2, n_bogus) },
     environs |-> { EmptyMap, (n_timeout :> s_5000) @@ (n_addr :> s_a) },
     files |-> { EmptyMap, (s_c :> FileOK(DocService)) },
     stdins |-> { FileBad }]

\* A catalog with an explicit environment gate, whose default is envDefault.
CatalogGated(envDefault) ==
    (n_env :> Param(PARAM_CONFIG_READ_ENV, envDefault, FALSE, <<>>, "nil"))
    @@ (n_timeout :> Param(PARAM_INT, IntV(1000), FALSE, <<>>, "nil"))
    @@ (n_debug :> Param(PARAM_BOOL, BoolV(FALSE), FALSE, dash2, "nil"))
    @@ (n_port :> Param(PARAM_STRING, StrV(s_p8080), FALSE, <<>>, "nil"))
    @@ (n_config :> Param(PARAM_CONFIG_JSON_FILE, StrV(s_c), FALSE, <<>>, "nil"))

\* {"timeout": 30, "port": ":9090", "debug": true, "bogus": "x"}
DocGated ==
    (n_timeout :> FloatV(30)) @@ (n_port :> StrV(s_p9090))
    @@ (n_debug :> BoolV(TRUE)) @@ (n_bogus :> StrV(s_x))

\* The gate's default is the string "true": the environment is read unless
\* the command line closes the gate.
ScenarioGated ==
    [params |-> CatalogGated(StrV(s_true)),
     tokens |-> { WithValue(default_prefix, n_env, s_false),
                  WithValue(default_prefix, n_timeout, s_7),
                  WithValue(default_prefix, n_timeout, s_x),
                  WithValue(dash2, n_debug, s_x) },
     environs |-> { EmptyMap,
                    (n_timeout :> s_5000) @@ (n_debug :> s_1) @@ (n_port :> s_p7)
                      @@ (n_bogus :> s_x),
                    (n_timeout :> s_big) @@ (n_debug :> s_maybe) },
     files |-> { (s_c :> FileOK(DocGated)), (s_c :> FileOK(EmptyMap)) },
     stdins |-> { FileBad }]

\* The gate's default is the boolean true.
ScenarioGatedBool ==
    [params |-> CatalogGated(BoolV(TRUE)),
     tokens |-> { Bare(default_prefix, n_env),
                  WithValue(default_prefix, n_timeout, s_7) },
     environs |-> { EmptyMap,
                    (n_timeout :> s_5000) @@ (n_debug :> s_1) @@ (n_port :> s_p7) },
     files |-> { (s_c :> FileOK(DocGated)) },
     stdins |-> { FileBad }]

\* A catalog that reads a document from standard input, with string
\* defaults for its int and its boolean.
CatalogStdin ==
    (n_stdin :> Param(PARAM_CONFIG_JSON_STDIN, Nil, FALSE, <<>>, "nil"))
    @@ (n_node :> Param(PARAM_CONFIG_NODE, StrV(s_app), FALSE, <<>>, "nil"))
    @@ (n_port :> Param(PARAM_STRING, StrV(s_p8080), FALSE, <<>>, "nil"))
    @@ (n_timeout :> Param(PARAM_INT, StrV(s_5000), FALSE, <<>>, "nil"))
    @@ (n_debug :> Param(PARAM_BOOL, StrV(s_1), FALSE, dash2, "nil"))

\* {"app": {"port": ":5"}}
DocStdin == (s_app :> MapV((n_port :> StrV(s_p5))))

ScenarioStdin ==
    [params |-> CatalogStdin,
     tokens |-> { Bare(default_prefix, n_stdin),
                  WithValue(default_prefix, n_port, s_p8),
                  WithValue(default_prefix, n_node, <<>>) },
     environs |-> { EmptyMap },
     files |-> { EmptyMap },
     stdins |-> { FileOK(DocStdin), FileBad }]

\* A catalog with a parameter of every kind and no default at all; the
\* PARAM_OBJECT parameter carries a validator.
CatalogBare ==
    (n_port :> Param(PARAM_STRING, Nil, FALSE, <<>>, "nil"))
    @@ (n_timeout :> Param(PARAM_INT, Nil, FALSE, <<>>, "nil"))
    @@ (n_debug :> Param(PARAM_BOOL, Nil, FALSE, <<>>, "nil"))
    @@ (n_obj :> Param(PARAM_OBJECT, Nil, FALSE, <<>>, "isObject"))
    @@ (n_env :> Param(PARAM_CONFIG_READ_ENV, Nil, FALSE, <<>>, "nil"))
    @@ (n_config :> Param(PARAM_CONFIG_JSON_FILE, Nil, FALSE, <<>>, "nil"))
    @@ (n_stdin :> Param(PARAM_CONFIG_JSON_STDIN, Nil, FALSE, <<>>, "nil"))
    @@ (n_node :> Param(PARAM_CONFIG_NODE, Nil, FALSE, <<>>, "nil"))
    @@ (n_help :> Param(PARAM_USAGE, Nil, FALSE, <<>>, "nil"))

ScenarioBare ==
    [params |-> CatalogBare,
     tokens |-> { WithValue(default_prefix, n_timeout, <<>>) },
     environs |-> { EmptyMap },
     files |-> { EmptyMap },
     stdins |-> { FileBad }]

\* A catalog in which every source can give the Int parameter a value: the
\* environment gate is open, the stdin flag's default is the boolean true,
\* and the environment also names a usage flag and another document file.
CatalogLayers ==
    (n_env :> Param(PARAM_CONFIG_READ_ENV, StrV(s_true), FALSE, <<>>, "nil"))
    @@ (n_help :> Param(PARAM_USAGE, BoolV(FALSE), FALSE, dash2, "nil"))
    @@ (n_stdin :> Param(PARAM_CONFIG_JSON_STDIN, BoolV(TRUE), FALSE, <<>>, "nil"))
    @@ (n_config :> Param(PARAM_CONFIG_JSON_FILE, StrV(s_c), FALSE, <<>>, "nil"))
    @@ (n_timeout :> Param(PARAM_INT, IntV(1000), FALSE, <<>>, "positiveNumber"))

\* file c is {"timeout": 30}, file a is {"timeout": 20}
FilesLayers ==
    (s_c :> FileOK((n_timeout :> FloatV(30))))
    @@ (s_a :> FileOK((n_timeout :> FloatV(20))))

\* {"timeout": "1"}
DocLayersStdin == (n_timeout :> StrV(s_1))

ScenarioLayers ==
    [params |-> CatalogLayers,
     tokens |-> { Bare(default_prefix, n_stdin),
                  WithValue(default_prefix, n_timeout, s_7),
                  WithValue(default_prefix, n_timeout, s_x),
                  WithValue(dash2, n_help, s_false) },
     environs |-> { EmptyMap,
                    (n_timeout :> s_5000) @@ (n_help :> s_true)
                      @@ (n_config :> s_a) },
     files |-> { FilesLayers },
     stdins |-> { FileOK(DocLayersStdin) }]

\* A catalog of two switches, and command lines that give a value with a
\* "=" in it, a proper prefix of a name (-por), an extension of a name
\* (-ports), a name behind the prefix of the other parameter (-debug) and a
\* name with no prefix (debug).
CatalogSwitches ==
    (n_port :> Param(PARAM_STRING, StrV(s_p8080), FALSE, <<>>, "nil"))
    @@ (n_debug :> Param(PARAM_BOOL, BoolV(FALSE), FALSE, dash2, "nil"))

ScenarioSwitches ==
    [params |-> CatalogSwitches,
     tokens |-> { WithValue(default_prefix, n_port, s_ab),
                  WithValue(default_prefix, n_port, s_z),
                  Bare(dash2, n_debug),
                  WithValue(default_prefix, n_por, s_z),
                  Bare(default_prefix, n_ports),
                  Bare(default_prefix, n_debug),
                  Bare(<<>>, n_debug) },
     environs |-> { EmptyMap },
     files |-> { EmptyMap },
     stdins |-> { FileBad }]

Scenarios ==
    { ScenarioExample, ScenarioService, ScenarioGated, ScenarioGatedBool,
      ScenarioStdin, ScenarioBare, ScenarioLayers, ScenarioSwitches }

\* a name no catalog declares, for the accessors
Undeclared == n_bogus

SeqsUpTo(S, n) == UNION { [1..k -> S] : k \in 0..n }

\* ------------------------------------------------------------------- state
VARIABLES
    params,          \* the caller's catalog, map[string]Param
    osArgs,          \* os.Args[1:]
    environ,         \* the process environment, read by os.Getenv
    files,           \* the file system: path -> content, for os.Open
    stdinFile,       \* the content of os.Stdin
    pc,              \* where NewConfig is
    argi,            \* processCommandLine: the argument being matched
    args,            \* processCommandLine's map, then NewConfig's args
    envs,            \* NewConfig's envs
    configNode,      \* NewConfig's configNode
    configFileVals,  \* NewConfig's configFileVals
    configStdinVals, \* NewConfig's configStdinVals
    values,          \* config.values while NewConfig runs
    todo,            \* the parameters the final range loop has not visited
    ret,             \* the Config NewConfig returned
    err,             \* the error NewConfig returned or logged before os.Exit
    opened,          \* the paths given to os.Open
    envRead,         \* whether getValsFromEnvVars was called
    stdinRead,       \* whether os.Stdin was decoded
    validated,       \* the calls of Validate functions: <<param, value>>
    got              \* the last accessor call and its result

vars ==
    <<params, osArgs, environ, files, stdinFile, pc, argi, args, envs,
      configNode, configFileVals, configStdinVals, values, todo, ret, err,
      opened, envRead, stdinRead, validated, got>>

inputs == <<params, osArgs, environ, files, stdinFile>>

NoErr == [kind |-> "nil", arg |-> <<>>]
\* fmt.Errorf(format, arg): the error's text is the format with arg in it
Errorf(kind, arg) == [kind |-> kind, arg |-> arg]

\* type Config struct { values, params }
Config(vals, ps) == [returned |-> TRUE, values |-> vals, params |-> ps]
\* Config{}: both maps nil
EmptyConfig == Config(EmptyMap, EmptyMap)
NoConfig == [returned |-> FALSE, values |-> EmptyMap, params |-> EmptyMap]
NoCall == [fn |-> "none", key |-> <<>>, panic |-> FALSE, v |-> Nil]

Init ==
    /\ \E sc \in Scenarios :
          /\ params = sc.params
          /\ osArgs \in SeqsUpTo(sc.tokens, MaxArgs)
          /\ environ \in sc.environs
          /\ files \in sc.files
          /\ stdinFile \in sc.stdins
    /\ pc = "processCommandLine"
    /\ argi = 1
    /\ args = EmptyMap
    /\ envs = EmptyMap
    /\ configNode = <<>>
    /\ configFileVals = EmptyMap
    /\ configStdinVals = EmptyMap
    /\ values = EmptyMap
    /\ todo = DOMAIN params
    /\ ret = NoConfig
    /\ err = NoErr
    /\ opened = {}
    /\ envRead = FALSE
    /\ stdinRead = FALSE
    /\ validated = <<>>
    /\ got = NoCall

\* ------------------------------------------------------ processCommandLine
\* the switch prefix of a parameter
PrefixOf(ps, param) ==
    IF ps[param].PrefixOverride # <<>> THEN ps[param].PrefixOverride
    ELSE default_prefix

\* Matching by prefix: the stripped left side need only begin with the name
MatchingByPrefix(ps, token) ==
    LET kv == Split(token)
    IN  { param \in DOMAIN ps :
            HasPrefix(TrimPrefix(kv[1], PrefixOf(ps, param)), param) }

\* the parameters whose name equals kv[0] with their prefix stripped; the
\* inner range loop breaks at the first of them it meets
Matching(ps, token) ==
    LET kv == Split(token)
    IN  { param \in DOMAIN ps :
            TrimPrefix(kv[1], PrefixOf(ps, param)) = param }

\* ArgValue with the bare switch recorded as the empty string
ArgValueBareEmpty(kv) == IF Len(kv) = 1 THEN <<>> ELSE kv[2]

\* the value recorded for a matched argument
ArgValue(kv) == IF Len(kv) = 1 THEN s_true ELSE kv[2]

\* UnsupportedFlagArgs returning the map built so far
UnsupportedFlagArgsPartial(a) == a

\* the map processCommandLine returns with an error: nil
UnsupportedFlagArgs(a) == EmptyMap

\* an argument that names a parameter
ProcessArgMatch ==
    /\ pc = "processCommandLine"
    /\ argi <= Len(osArgs)
    /\ \E param \in Matching(params, osArgs[argi]) :
          args' = MapPut(args, param, ArgValue(Split(osArgs[argi])))
    /\ argi' = argi + 1
    /\ UNCHANGED <<inputs, pc, envs, configNode, configFileVals,
                   configStdinVals, values, todo, ret, err, opened, envRead,
                   stdinRead, validated, got>>

\* an argument that names none: processCommandLine returns nil and the
\* error, NewConfig logs it and calls os.Exit(1)
ProcessArgNoMatch ==
    /\ pc = "processCommandLine"
    /\ argi <= Len(osArgs)
    /\ Matching(params, osArgs[argi]) = {}
    /\ args' = UnsupportedFlagArgs(args)
    /\ err' = Errorf("unsupported flag", osArgs[argi])
    /\ pc' = "exit"
    /\ UNCHANGED <<inputs, argi, envs, configNode, configFileVals,
                   configStdinVals, values, todo, ret, opened, envRead,
                   stdinRead, validated, got>>

\* ------------------------------------------------ isCommandLineUsageTypeTrue
\* the names of the parameters of a type, in the order of a range loop
GetParamKeysByType(ps, paramType) ==
    { param \in DOMAIN ps : ps[param].Type = paramType }

\* UsageDeciding that stops at true values only: an unparsable value is
\* passed over, as for a PARAM_BOOL parameter
UsageDecidingTrueOnly(ps, a) ==
    { f \in { q \in DOMAIN ps : ps[q].Type = PARAM_USAGE } :
        f \in DOMAIN a /\ ParseBool(a[f]).value }

\* UsageDeciding that stops at unparsable values only, never at a true one
UsageDecidingErrorsOnly(ps, a) ==
    { f \in { q \in DOMAIN ps : ps[q].Type = PARAM_USAGE } :
        f \in DOMAIN a /\ ParseBool(a[f]).err }

\* the usage flags at which the loop of isCommandLineUsageTypeTrue can stop:
\* those given on the command line with a value that is true or unparsable
UsageDeciding(ps, a) ==
    { f \in GetParamKeysByType(ps, PARAM_USAGE) :
        /\ f \in DOMAIN a
        /\ ParseBool(a[f]).err \/ ParseBool(a[f]).value }

\* CommandLineDone that holds before the last argument is processed
CommandLineDoneEarly == pc = "processCommandLine"

\* line 669 returned without error: every argument has been processed
CommandLineDone == pc = "processCommandLine" /\ argi > Len(osArgs)

\* no usage flag is set to true: NewConfig goes on
UsageNotSet ==
    /\ CommandLineDone
    /\ UsageDeciding(params, args) = {}
    /\ pc' = "env"
    /\ UNCHANGED <<inputs, argi, args, envs, configNode, configFileVals,
                   configStdinVals, values, todo, ret, err, opened, envRead,
                   stdinRead, validated, got>>

\* strconv.ParseBool fails on a usage flag: NewConfig calls os.Exit(1)
UsageParseError ==
    /\ CommandLineDone
    /\ \E f \in UsageDeciding(params, args) :
          /\ ParseBool(args[f]).err
          /\ err' = Errorf("ParseBool", args[f])
    /\ pc' = "exit"
    /\ UNCHANGED <<inputs, argi, args, envs, configNode, configFileVals,
                   configStdinVals, values, todo, ret, opened, envRead,
                   stdinRead, validated, got>>

\* a usage flag is true: NewConfig returns the config with that value only
UsageShortCircuit ==
    /\ CommandLineDone
    /\ \E f \in UsageDeciding(params, args) :
          /\ ~ParseBool(args[f]).err
          /\ values' = MapPut(values, f, BoolV(TRUE))
    /\ ret' = Config(values', params)
    /\ pc' = "return"
    /\ UNCHANGED <<inputs, argi, args, envs, configNode, configFileVals,
                   configStdinVals, todo, err, opened, envRead, stdinRead,
                   validated, got>>

\* ------------------------------------------------ getPreliminaryConfigValue
\* configKey: GetParamKeysByType(configKeyType)[0], any parameter of the
\* type as the map is ranged in no fixed order, "" when there is none
PreliminaryKeys(ps, configKeyType) ==
    IF GetParamKeysByType(ps, configKeyType) = {} THEN { <<>> }
    ELSE GetParamKeysByType(ps, configKeyType)

\* configValue: the command-line value when the switch was given, else the
\* default when it is a string, else ""
PreliminaryValue(a, ps, configKey) ==
    IF configKey = <<>> THEN <<>>
    ELSE IF configKey \in DOMAIN a THEN a[configKey]
    ELSE IF ps[configKey].Default # Nil /\ ps[configKey].Default.t = "string"
    THEN ps[configKey].Default.s
    ELSE <<>>

\* ok of `ok, _ := strconv.ParseBool(getPreliminaryConfigValue(...))`
PreliminaryFlag(a, ps, configKey) ==
    ParseBool(PreliminaryValue(a, ps, configKey)).value

\* -------------------------------------------------------- getValsFromEnvVars
Getenv(name) == StrGet(environ, name)

getValsFromEnvVars(ps) ==
    [param \in { q \in DOMAIN ps : Getenv(q) # <<>> } |-> Getenv(param)]

\* NewConfig, lines 685-694: the environment is read when the
\* PARAM_CONFIG_READ_ENV parameter's preliminary value parses as true
ReadEnv ==
    /\ pc = "env"
    /\ \E k \in PreliminaryKeys(params, PARAM_CONFIG_READ_ENV) :
          IF PreliminaryFlag(args, params, k)
          THEN envs' = getValsFromEnvVars(params) /\ envRead' = TRUE
          ELSE envs' = EmptyMap /\ envRead' = FALSE
    /\ pc' = "file"
    /\ UNCHANGED <<inputs, argi, args, configNode, configFileVals,
                   configStdinVals, values, todo, ret, err, opened,
                   stdinRead, validated, got>>

\* --------------------------------------------------------- parseJsonFromFile
\* parseJsonFromFile that ignores the node
parseJsonWholeDocument(f, node) ==
    IF ~f.valid THEN [exit |-> TRUE, config |-> EmptyMap]
    ELSE [exit |-> FALSE, config |-> f.doc]

\* [exit, config]: exit when the decoder fails or the node is not a map in
\* the decoded document (os.Exit(1)), else the map to use
parseJsonFromFile(f, node) ==
    IF ~f.valid THEN [exit |-> TRUE, config |-> EmptyMap]
    ELSE IF node # <<>>
    THEN IF /\ MapGet(f.doc, node) # Nil
            /\ MapGet(f.doc, node).t = "map[string]interface {}"
         THEN [exit |-> FALSE, config |-> MapGet(f.doc, node).m]
         ELSE [exit |-> TRUE, config |-> EmptyMap]
    ELSE [exit |-> FALSE, config |-> f.doc]

\* NewConfig, lines 696-711: no document file is named
LoadFileNone ==
    /\ pc = "file"
    /\ \E kj \in PreliminaryKeys(params, PARAM_CONFIG_JSON_FILE),
          kn \in PreliminaryKeys(params, PARAM_CONFIG_NODE) :
          /\ PreliminaryValue(args, params, kj) = <<>>
          /\ configNode' = PreliminaryValue(args, params, kn)
    /\ pc' = "stdin"
    /\ UNCHANGED <<inputs, argi, args, envs, configFileVals, configStdinVals,
                   values, todo, ret, err, opened, envRead, stdinRead,
                   validated, got>>

\* the named file opens, decodes and has the node
LoadFileOK ==
    /\ pc = "file"
    /\ \E kj \in PreliminaryKeys(params, PARAM_CONFIG_JSON_FILE),
          kn \in PreliminaryKeys(params, PARAM_CONFIG_NODE) :
          LET configJson == PreliminaryValue(args, params, kj)
              node == PreliminaryValue(args, params, kn)
          IN  /\ configJson # <<>>
              /\ configJson \in DOMAIN files
              /\ ~parseJsonFromFile(files[configJson], node).exit
              /\ configNode' = node
              /\ opened' = opened \cup {configJson}
              /\ configFileVals' = parseJsonFromFile(files[configJson], node).config
    /\ pc' = "stdin"
    /\ UNCHANGED <<inputs, argi, args, envs, configStdinVals, values, todo,
                   ret, err, envRead, stdinRead, validated, got>>

\* os.Open fails, or parseJsonFromFile exits
LoadFileFail ==
    /\ pc = "file"
    /\ \E kj \in PreliminaryKeys(params, PARAM_CONFIG_JSON_FILE),
          kn \in PreliminaryKeys(params, PARAM_CONFIG_NODE) :
          LET configJson == PreliminaryValue(args, params, kj)
              node == PreliminaryValue(args, params, kn)
          IN  /\ configJson # <<>>
              /\ configNode' = node
              /\ opened' = opened \cup {configJson}
              /\ \/ /\ configJson \notin DOMAIN files
                    /\ err' = Errorf("open", configJson)
                 \/ /\ configJson \in DOMAIN files
                    /\ ~files[configJson].valid
                    /\ err' = Errorf("decode", configJson)
                 \/ /\ configJson \in DOMAIN files
                    /\ files[configJson].valid
                    /\ parseJsonFromFile(files[configJson], node).exit
                    /\ err' = Errorf("node not found", node)
    /\ pc' = "exit"
    /\ UNCHANGED <<inputs, argi, args, envs, configFileVals, configStdinVals,
                   values, todo, ret, envRead, stdinRead, validated, got>>

\* NewConfig, lines 713-716: standard input is not asked for
LoadStdinNone ==
    /\ pc = "stdin"
    /\ \E k \in PreliminaryKeys(params, PARAM_CONFIG_JSON_STDIN) :
          ~PreliminaryFlag(args, params, k)
    /\ pc' = "finalize"
    /\ UNCHANGED <<inputs, argi, args, envs, configNode, configFileVals,
                   configStdinVals, values, todo, ret, err, opened, envRead,
                   stdinRead, validated, got>>

\* standard input is decoded, with the node of the file
LoadStdinOK ==
    /\ pc = "stdin"
    /\ \E k \in PreliminaryKeys(params, PARAM_CONFIG_JSON_STDIN) :
          PreliminaryFlag(args, params, k)
    /\ ~parseJsonFromFile(stdinFile, configNode).exit
    /\ configStdinVals' = parseJsonFromFile(stdinFile, configNode).config
    /\ stdinRead' = TRUE
    /\ pc' = "finalize"
    /\ UNCHANGED <<inputs, argi, args, envs, configNode, configFileVals,
                   values, todo, ret, err, opened, envRead, validated, got>>

\* parseJsonFromFile exits on standard input
LoadStdinFail ==
    /\ pc = "stdin"
    /\ \E k \in PreliminaryKeys(params, PARAM_CONFIG_JSON_STDIN) :
          PreliminaryFlag(args, params, k)
    /\ parseJsonFromFile(stdinFile, configNode).exit
    /\ stdinRead' = TRUE
    /\ err' = IF stdinFile.valid THEN Errorf("node not found", configNode)
              ELSE Errorf("decode", <<>>)
    /\ pc' = "exit"
    /\ UNCHANGED <<inputs, argi, args, envs, configNode, configFileVals,
                   configStdinVals, values, todo, ret, opened, envRead,
                   validated, got>>

\* ------------------------------------------- NewConfig, the final range loop
\* LayerDefault that never assigns the default
LayerDefaultSkipped(vals, param) == vals

\* lines 721-726: the default, when there is one
LayerDefault(vals, param) ==
    IF params[param].Default # Nil
    THEN MapPut(vals, param, params[param].Default) ELSE vals

\* LayerFile that copies every key of the document
LayerFileWholeDocument(vals, param) ==
    [k \in DOMAIN vals \cup DOMAIN configFileVals |->
        IF k \in DOMAIN configFileVals THEN configFileVals[k] ELSE vals[k]]

\* lines 727-730: the value of the document file
LayerFile(vals, param) ==
    IF MapGet(configFileVals, param) # Nil
    THEN MapPut(vals, param, MapGet(configFileVals, param)) ELSE vals

\* lines 731-734: the value of the document on standard input
LayerStdin(vals, param) ==
    IF MapGet(configStdinVals, param) # Nil
    THEN MapPut(vals, param, MapGet(configStdinVals, param)) ELSE vals

\* lines 735-738: the environment variable
LayerEnv(vals, param) ==
    IF StrGet(envs, param) # <<>>
    THEN MapPut(vals, param, StrV(StrGet(envs, param))) ELSE vals

\* lines 739-742: the command-line value
LayerArgs(vals, param) ==
    IF StrGet(args, param) # <<>>
    THEN MapPut(vals, param, StrV(StrGet(args, param))) ELSE vals

\* lines 721-742
Layered(vals, param) ==
    LayerArgs(LayerEnv(LayerStdin(LayerFile(LayerDefault(vals, param), param),
                                  param), param), param)

\* ZeroValue that gives "" whatever the kind
ZeroValueAllStrings(vals, param) ==
    IF param \in DOMAIN vals THEN vals ELSE MapPut(vals, param, StrV(<<>>))

\* lines 750-763: the value given to a parameter that has none
ZeroValue(vals, param) ==
    IF param \in DOMAIN vals THEN vals
    ELSE IF params[param].Type \in
              {PARAM_STRING, PARAM_CONFIG_JSON_FILE, PARAM_CONFIG_NODE}
    THEN MapPut(vals, param, StrV(<<>>))
    ELSE IF params[param].Type = PARAM_INT
    THEN MapPut(vals, param, IntV(0))
    ELSE IF params[param].Type \in
              {PARAM_BOOL, PARAM_USAGE, PARAM_CONFIG_JSON_STDIN,
               PARAM_CONFIG_READ_ENV}
    THEN MapPut(vals, param, BoolV(FALSE))
    ELSE vals

\* CoerceBool that takes a string that is no boolean for true
CoerceBoolMalformedTrue(v) ==
    IF v.t = "string"
    THEN BoolV(ParseBool(v.s).value \/ ParseBool(v.s).err) ELSE v

\* lines 768-774: a string held by a PARAM_BOOL parameter
CoerceBool(v) ==
    IF v.t = "string" THEN BoolV(ParseBool(v.s).value) ELSE v

\* CoerceInt that leaves the string as it is
CoerceIntKeepsString(v) == v

\* lines 775-781: a string held by a PARAM_INT parameter
CoerceInt(v) ==
    IF v.t = "string" THEN IntV(Atoi(v.s).value) ELSE v

\* lines 766-783
Coerce(vals, param) ==
    IF param \notin DOMAIN vals THEN vals
    ELSE IF params[param].Type = PARAM_BOOL
    THEN MapPut(vals, param, CoerceBool(vals[param]))
    ELSE IF params[param].Type = PARAM_INT
    THEN MapPut(vals, param, CoerceInt(vals[param]))
    ELSE vals

\* lines 744-749: the required parameter has no value
MissingRequired(vals, param) ==
    param \notin DOMAIN vals /\ params[param].Required

\* ValidatorCalled that skips every validator
ValidatorNeverCalled(vals, param) == FALSE

\* lines 786-796: whether the Validate function is called
ValidatorCalled(vals, param) ==
    params[param].Validate # "nil" /\ param \in DOMAIN vals

\* one iteration of the loop that ends at its closing brace
FinalizeParam(param) ==
    /\ pc = "finalize"
    /\ param \in todo
    /\ ~MissingRequired(Layered(values, param), param)
    /\ LET vals == Coerce(ZeroValue(Layered(values, param), param), param)
       IN  /\ ValidatorCalled(vals, param) =>
                Validator(params[param].Validate, vals[param])
           /\ values' = vals
           /\ validated' = IF ValidatorCalled(vals, param)
                           THEN Append(validated, <<param, vals[param]>>)
                           ELSE validated
    /\ todo' = todo \ {param}
    /\ UNCHANGED <<inputs, pc, argi, args, envs, configNode, configFileVals,
                   configStdinVals, ret, err, opened, envRead, stdinRead, got>>

\* one iteration that returns the config built so far and the error
\* "Missing required parameter"
FinalizeMissing(param) ==
    /\ pc = "finalize"
    /\ param \in todo
    /\ MissingRequired(Layered(values, param), param)
    /\ values' = Layered(values, param)
    /\ todo' = todo \ {param}
    /\ err' = Errorf("Missing required parameter", param)
    /\ ret' = Config(values', params)
    /\ pc' = "return"
    /\ UNCHANGED <<inputs, argi, args, envs, configNode, configFileVals,
                   configStdinVals, opened, envRead, stdinRead, validated, got>>

\* one iteration that returns Config{} and the error "Validation failed"
FinalizeInvalid(param) ==
    /\ pc = "finalize"
    /\ param \in todo
    /\ ~MissingRequired(Layered(values, param), param)
    /\ LET vals == Coerce(ZeroValue(Layered(values, param), param), param)
       IN  /\ ValidatorCalled(vals, param)
           /\ ~Validator(params[param].Validate, vals[param])
           /\ values' = vals
           /\ validated' = Append(validated, <<param, vals[param]>>)
    /\ todo' = todo \ {param}
    /\ err' = Errorf("Validation failed", param)
    /\ ret' = EmptyConfig
    /\ pc' = "return"
    /\ UNCHANGED <<inputs, argi, args, envs, configNode, configFileVals,
                   configStdinVals, opened, envRead, stdinRead, got>>

\* line 800: the loop is over
ReturnConfig ==
    /\ pc = "finalize"
    /\ todo = {}
    /\ ret' = Config(values, params)
    /\ pc' = "return"
    /\ UNCHANGED <<inputs, argi, args, envs, configNode, configFileVals,
                   configStdinVals, values, todo, err, opened, envRead,
                   stdinRead, validated, got>>

\* -------------------------------------------------------------- accessors
\* Config.Get
Get(c, key) == MapGet(c.values, key)

\* reflect.TypeOf(v).String(): calling String on the nil Type that
\* reflect.TypeOf(nil) returns is a nil dereference, a run-time panic
TypeStringPanics(v) == v = Nil

\* Config.GetInt: [panic, v]
GetInt(c, key) ==
    IF TypeStringPanics(Get(c, key)) THEN [panic |-> TRUE, v |-> Nil]
    ELSE IF Get(c, key).t = "int" THEN [panic |-> FALSE, v |-> Get(c, key)]
    ELSE [panic |-> FALSE, v |-> IntV(0)]

\* Config.GetBool: [panic, v]
GetBool(c, key) ==
    IF TypeStringPanics(Get(c, key)) THEN [panic |-> TRUE, v |-> Nil]
    ELSE IF Get(c, key).t = "bool" THEN [panic |-> FALSE, v |-> Get(c, key)]
    ELSE [panic |-> FALSE, v |-> BoolV(FALSE)]

\* Config.GetString: [panic, v]
GetString(c, key) ==
    IF TypeStringPanics(Get(c, key)) THEN [panic |-> TRUE, v |-> Nil]
    ELSE IF Get(c, key).t = "string" THEN [panic |-> FALSE, v |-> Get(c, key)]
    ELSE [panic |-> FALSE, v |-> StrV(<<>>)]

\* GetKeysWithPrefix that prepends the default prefix to every name
GetKeysWithPrefixDefaultOnly(c) ==
    [param \in DOMAIN c.params |-> default_prefix \o param]

\* Config.GetKeysWithPrefix: for each parameter of the Config's catalog the
\* switch, prefix + param
GetKeysWithPrefix(c) ==
    [param \in DOMAIN c.params |->
        (IF c.params[param].PrefixOverride = <<>> THEN default_prefix
         ELSE c.params[param].PrefixOverride) \o param]

\* the names the caller asks for
Keys == DOMAIN params \cup {Undeclared}

\* Called with an accessor that empties the value map of the Config
CalledClearsValues(fn, key, r) ==
    /\ got' = [fn |-> fn, key |-> key, panic |-> r.panic, v |-> r.v]
    /\ pc' = IF r.panic THEN "panic" ELSE pc
    /\ ret' = [ret EXCEPT !.values = EmptyMap]
    /\ UNCHANGED <<inputs, argi, args, envs, configNode, configFileVals,
                   configStdinVals, values, todo, err, opened, envRead,
                   stdinRead, validated>>

\* a call of an accessor on the returned Config; a panic ends the program
Called(fn, key, r) ==
    /\ got' = [fn |-> fn, key |-> key, panic |-> r.panic, v |-> r.v]
    /\ pc' = IF r.panic THEN "panic" ELSE pc
    /\ UNCHANGED <<inputs, argi, args, envs, configNode, configFileVals,
                   configStdinVals, values, todo, ret, err, opened, envRead,
                   stdinRead, validated>>

CallGet ==
    /\ pc = "return"
    /\ \E key \in Keys :
          Called("Get", key, [panic |-> FALSE, v |-> Get(ret, key)])

CallGetInt ==
    /\ pc = "return"
    /\ \E key \in Keys : Called("GetInt", key, GetInt(ret, key))

CallGetBool ==
    /\ pc = "return"
    /\ \E key \in Keys : Called("GetBool", key, GetBool(ret, key))

CallGetString ==
    /\ pc = "return"
    /\ \E key \in Keys : Called("GetString", key, GetString(ret, key))

CallGetKeysWithPrefix ==
    /\ pc = "return"
    /\ Called("GetKeysWithPrefix", <<>>,
              [panic |-> FALSE,
               v |-> MapV([param \in DOMAIN GetKeysWithPrefix(ret) |->
                              StrV(GetKeysWithPrefix(ret)[param])])])

\* the []string Config.GetParamKeysByType returns for paramType, as the
\* names it holds (their order is that of a range over a map), with the
\* argument of the call in field i
KeysByType(c, paramType) ==
    [t |-> "[]string", s |-> <<>>, i |-> paramType, b |-> FALSE,
     m |-> [param \in GetParamKeysByType(c.params, paramType) |->
              StrV(param)]]

CallGetParamKeysByType ==
    /\ pc = "return"
    /\ \E paramType \in {PARAM_STRING, PARAM_USAGE} :
          Called("GetParamKeysByType", <<>>,
                 [panic |-> FALSE, v |-> KeysByType(ret, paramType)])

\* Config.PrintUsage, lines 873-880: the longest key of the map
\* GetKeysWithPrefix returns; the keys of that map are the parameter names
Maxlen(c) ==
    LET lens == { Len(key) : key \in DOMAIN GetKeysWithPrefix(c) } \cup {0}
    IN  CHOOSE n \in lens : \A l \in lens : l <= n

\* lines 883-886: spaces appended from len(padded) up to maxlen, inclusive
Padded(str, maxlen) ==
    IF Len(str) <= maxlen
    THEN str \o [k \in 1..(maxlen + 1 - Len(str)) |-> " "]
    ELSE str

\* Config.PrintUsage: the first column of the row printed for each
\* parameter of the Config's catalog
PrintUsage(c) ==
    [param \in DOMAIN c.params |->
        Padded(GetKeysWithPrefix(c)[param], Maxlen(c))]

CallPrintUsage ==
    /\ pc = "return"
    /\ Called("PrintUsage", <<>>,
              [panic |-> FALSE,
               v |-> MapV([param \in DOMAIN PrintUsage(ret) |->
                              StrV(PrintUsage(ret)[param])])])

\* -------------------------------------------------------------------- Next
Next ==
    \/ ProcessArgMatch
    \/ ProcessArgNoMatch
    \/ UsageNotSet
    \/ UsageParseError
    \/ UsageShortCircuit
    \/ ReadEnv
    \/ LoadFileNone
    \/ LoadFileOK
    \/ LoadFileFail
    \/ LoadStdinNone
    \/ LoadStdinOK
    \/ LoadStdinFail
    \/ \E param \in DOMAIN params : FinalizeParam(param)
    \/ \E param \in DOMAIN params : FinalizeMissing(param)
    \/ \E param \in DOMAIN params : FinalizeInvalid(param)
    \/ ReturnConfig
    \/ CallGet
    \/ CallGetInt
    \/ CallGetBool
    \/ CallGetString
    \/ CallGetKeysWithPrefix
    \/ CallGetParamKeysByType
    \/ CallPrintUsage

Spec == Init /\ [][Next]_vars

\* ------------------------------------------------------- words of the claims
\* NewConfig returned (it did not call os.Exit)
Returned == ret.returned
\* NewConfig returned no error
Succeeded == Returned /\ err = NoErr
\* NewConfig returned no error at line 800, after the loop over the catalog
FullySucceeded == Succeeded /\ todo = {}
\* NewConfig returned at line 682, on a usage flag
ShortCircuited == Succeeded /\ todo = DOMAIN params

\* the raw value of each source for a parameter
DefaultOf(param) == params[param].Default
FileValue(param) == MapGet(configFileVals, param)
StdinValue(param) == MapGet(configStdinVals, param)
CmdValue(param) == StrGet(args, param)

\* what the value of a source becomes in a parameter of that kind: the
\* strings of a Bool or an Int parameter are parsed
Derived(param, v) ==
    IF params[param].Type = PARAM_BOOL /\ v.t = "string"
    THEN BoolV(ParseBool(v.s).value)
    ELSE IF params[param].Type = PARAM_INT /\ v.t = "string"
    THEN IntV(Atoi(v.s).value)
    ELSE v

\* The environment gate as sections 4.2 of the specification states it: the
\* lookup is skipped only when a ReadEnvFlag parameter's value, from the
\* command line if given there and else its default, is false.
IsFalse(v) ==
    \/ v = BoolV(FALSE)
    \/ v.t = "string" /\ ~ParseBool(v.s).err /\ ~ParseBool(v.s).value
StatedGateClosed ==
    \E f \in GetParamKeysByType(params, PARAM_CONFIG_READ_ENV) :
        IsFalse(IF f \in DOMAIN args THEN StrV(args[f]) ELSE DefaultOf(f))
\* the environment value of a parameter under that gate
StatedEnvValue(param) == IF StatedGateClosed THEN <<>> ELSE Getenv(param)

\* C1 (as claimed): the precedence law. After a successful resolution, a
\* parameter with a default and values in the document file, the environment
\* and the command line holds the value derived from the command line;
\* without the command-line value, the one derived from the environment;
\* without both, the document's; without all three, the default.
C1_PrecedenceLaw ==
    FullySucceeded =>
      \A param \in DOMAIN params :
        (DefaultOf(param) # Nil /\ StdinValue(param) = Nil) =>
          LET hasFile == FileValue(param) # Nil
              hasEnv == StatedEnvValue(param) # <<>>
              hasCmd == CmdValue(param) # <<>>
          IN  /\ (hasFile /\ hasEnv /\ hasCmd) =>
                   Get(ret, param) = Derived(param, StrV(CmdValue(param)))
              /\ (hasFile /\ hasEnv /\ ~hasCmd) =>
                   Get(ret, param) = Derived(param, StrV(StatedEnvValue(param)))
              /\ (hasFile /\ ~hasEnv /\ ~hasCmd) =>
                   Get(ret, param) = Derived(param, FileValue(param))
              /\ (~hasFile /\ ~hasEnv /\ ~hasCmd) =>
                   Get(ret, param) = Derived(param, DefaultOf(param))

\* no source but the catalog gives the parameter a value
OnlyDefault(param) ==
    /\ DefaultOf(param) # Nil
    /\ FileValue(param) = Nil
    /\ StdinValue(param) = Nil
    /\ Getenv(param) = <<>>
    /\ CmdValue(param) = <<>>

HasValueInSomeLayer(param) ==
    \/ DefaultOf(param) # Nil
    \/ FileValue(param) # Nil
    \/ StdinValue(param) # Nil
    \/ StatedEnvValue(param) # <<>>
    \/ CmdValue(param) # <<>>

\* C3 (as claimed): a required parameter with no value in any layer makes
\* NewConfig fail with an error naming it, once the loop over the catalog
\* reaches it; a required parameter with a value in some layer never causes
\* the missing-required failure.
C3_RequiredEnforced ==
    \A param \in DOMAIN params :
      params[param].Required =>
        /\ (/\ pc \in {"finalize", "return", "panic"}
            /\ param \notin todo
            /\ ~HasValueInSomeLayer(param)) =>
             /\ Returned
             /\ err = Errorf("Missing required parameter", param)
        /\ HasValueInSomeLayer(param) =>
             err # Errorf("Missing required parameter", param)

\* the arguments that match no declared parameter
Unmatched == { k \in 1..Len(osArgs) : Matching(params, osArgs[k]) = {} }
FirstUnmatched == CHOOSE k \in Unmatched : \A j \in Unmatched : k <= j

\* C4: an argument that matches no declared parameter aborts the
\* resolution: no Config is ever returned, and once the matcher has met the
\* argument it has returned the error that holds the argument and no map,
\* the entries of the arguments before it being dropped.
C4_UnrecognizedSwitchAborts ==
    Unmatched # {} =>
      /\ ~Returned
      /\ pc \in {"processCommandLine", "exit"}
      /\ pc = "processCommandLine" => argi <= FirstUnmatched
      /\ pc = "exit" =>
           /\ err = Errorf("unsupported flag", osArgs[FirstUnmatched])
           /\ args = EmptyMap
           /\ values = EmptyMap

\* C4 witness: the matcher failed on the second argument, after it had
\* recorded the first
C4_Witness ==
    /\ pc = "exit"
    /\ err.kind = "unsupported flag"
    /\ Len(osArgs) = 2
    /\ err.arg = osArgs[2]
    /\ Matching(params, osArgs[1]) # {}

\* C5 (as claimed): the environment is looked up unless a ReadEnvFlag
\* parameter's pre-resolved value (the command-line value if given, else the
\* default) is false; so with no ReadEnvFlag parameter in the catalog, or
\* with one whose default is the boolean true, the environment is read.
C5_EnvironmentGate ==
    pc \in {"file", "stdin", "finalize"} => (envRead <=> ~StatedGateClosed)

\* the usage flags whose command-line value parses as true
UsageTrue ==
    { f \in GetParamKeysByType(params, PARAM_USAGE) :
        f \in DOMAIN args /\ args[f] \in TrueStrings }

\* C6: when the command line is matched and gives a usage flag a value that
\* parses as true, NewConfig returns no error and a value map that holds
\* that flag, true, and nothing else; no file was given to os.Open,
\* standard input was not decoded, the loop that checks required parameters
\* and calls validators visited no parameter.
C6_UsageShortCircuit ==
    (argi > Len(osArgs) /\ UsageTrue # {} /\ Unmatched = {}) =>
      /\ pc \in {"processCommandLine", "return", "panic"}
      /\ pc # "processCommandLine" =>
           /\ Succeeded
           /\ \E f \in UsageTrue : ret.values = (f :> BoolV(TRUE))
           /\ ret.params = params
           /\ opened = {}
           /\ ~stdinRead
           /\ validated = <<>>
           /\ todo = DOMAIN params

\* C6 witness: the short-circuit was taken although the document file of
\* the catalog cannot be opened and a required parameter has no value
C6_Witness ==
    /\ ShortCircuited
    /\ ret.values = (n_help :> BoolV(TRUE))
    /\ \E f \in GetParamKeysByType(params, PARAM_CONFIG_JSON_FILE) :
          PreliminaryValue(args, params, f) \notin DOMAIN files
    /\ \E param \in DOMAIN params :
          params[param].Required /\ ~HasValueInSomeLayer(param)

\* the last argument that names the parameter is a switch without "="
HasEq(token) == \E k \in 1..Len(token) : token[k] = "="
LastSwitchIsBare(param) ==
    \E k \in 1..Len(osArgs) :
        /\ ~HasEq(osArgs[k])
        /\ param \in Matching(params, osArgs[k])
        /\ \A j \in (k + 1)..Len(osArgs) :
              param \notin Matching(params, osArgs[j])

\* C7: a switch written without "=" is recorded with the string "true", and
\* a Bool parameter given that way resolves to the boolean true.
C7_BareSwitchIsTrue ==
    (argi > Len(osArgs) /\ Unmatched = {}) =>
      \A param \in DOMAIN params :
        LastSwitchIsBare(param) =>
          /\ param \in DOMAIN args
          /\ args[param] = <<"t", "r", "u", "e">>
          /\ (FullySucceeded /\ params[param].Type = PARAM_BOOL) =>
               Get(ret, param) = BoolV(TRUE)

\* C7 witness: the command line is --debug, for a Bool parameter whose
\* default is false and whose prefix is "--"
C7_Witness ==
    /\ FullySucceeded
    /\ osArgs = << dash2 \o n_debug >>
    /\ n_debug \in DOMAIN params
    /\ params[n_debug].Type = PARAM_BOOL
    /\ params[n_debug].Default = BoolV(FALSE)
    /\ params[n_debug].PrefixOverride = dash2
    /\ Get(ret, n_debug) = BoolV(TRUE)

\* a base-10 integer string: an optional sign and one digit or more
Unsigned(str) ==
    IF Len(str) > 0 /\ str[1] \in {"+", "-"} THEN Tail(str) ELSE str
IsBase10(str) ==
    /\ Len(Unsigned(str)) > 0
    /\ \A k \in 1..Len(Unsigned(str)) : Unsigned(str)[k] \in Digits

\* the decimal numeral of the integer a base-10 string denotes: no "+", no
\* leading zeros, no "-0"
Numeral(str) ==
    LET ds == StripZeros(Unsigned(str))
    IN  IF str[1] = "-" /\ ds # <<"0">> THEN <<"-">> \o ds ELSE ds

\* the decimal numeral of an int
DigitChar(d) ==
    CASE d = 0 -> "0" [] d = 1 -> "1" [] d = 2 -> "2" [] d = 3 -> "3"
      [] d = 4 -> "4" [] d = 5 -> "5" [] d = 6 -> "6" [] d = 7 -> "7"
      [] d = 8 -> "8" [] d = 9 -> "9"
RECURSIVE NatNumeral(_)
NatNumeral(n) ==
    IF n < 10 THEN <<DigitChar(n)>>
    ELSE Append(NatNumeral(n \div 10), DigitChar(n % 10))
IntNumeral(n) ==
    IF n >= 0 THEN NatNumeral(n)
    ELSE IF n = IntMin THEN <<"-">> \o MinIntDigits
    ELSE <<"-">> \o NatNumeral(0 - n)

\* the integer a base-10 string denotes is a value of Go's int
FitsInt(str) ==
    \/ Numeral(str) = IntNumeral(IntMin)
    \/ Len(StripZeros(Unsigned(str))) < Len(NatNumeral(IntMax))
    \/ /\ Len(StripZeros(Unsigned(str))) = Len(NatNumeral(IntMax))
       /\ \E k \in 1..Len(NatNumeral(IntMax)) :
             /\ DigitVal(StripZeros(Unsigned(str))[k])
                  <= DigitVal(NatNumeral(IntMax)[k])
             /\ \A j \in 1..(k - 1) :
                   StripZeros(Unsigned(str))[j] = NatNumeral(IntMax)[j]
             /\ \/ k = Len(NatNumeral(IntMax))
                \/ DigitVal(StripZeros(Unsigned(str))[k])
                     < DigitVal(NatNumeral(IntMax)[k])

\* the string that wins for a parameter whose value comes from the command
\* line or from the environment that was read; "" when neither gives one
WinningRaw(param) ==
    IF CmdValue(param) # <<>> THEN CmdValue(param) ELSE StrGet(envs, param)

\* C8 (as claimed): an Int parameter whose winning raw value is a base-10
\* integer string from the environment or the command line resolves to the
\* integer that string denotes, as an int, and GetInt returns it.
C8_IntCoercion ==
    FullySucceeded =>
      \A param \in DOMAIN params :
        (/\ params[param].Type = PARAM_INT
         /\ IsBase10(WinningRaw(param))) =>
          /\ Get(ret, param).t = "int"
          /\ IntNumeral(Get(ret, param).i) = Numeral(WinningRaw(param))
          /\ GetInt(ret, param) = [panic |-> FALSE, v |-> Get(ret, param)]

\* C8 (amended): the same, for the base-10 integer strings whose integer is
\* a value of Go's int.
C8_IntCoercionInRange ==
    FullySucceeded =>
      \A param \in DOMAIN params :
        (/\ params[param].Type = PARAM_INT
         /\ IsBase10(WinningRaw(param))
         /\ FitsInt(WinningRaw(param))) =>
          /\ Get(ret, param).t = "int"
          /\ IntNumeral(Get(ret, param).i) = Numeral(WinningRaw(param))
          /\ GetInt(ret, param) = [panic |-> FALSE, v |-> Get(ret, param)]

\* C8 witness: the environment's "5000" became the int 5000, over the
\* default 1000
C8_Witness ==
    /\ FullySucceeded
    /\ n_timeout \in DOMAIN params
    /\ params[n_timeout].Type = PARAM_INT
    /\ DefaultOf(n_timeout) = IntV(1000)
    /\ CmdValue(n_timeout) = <<>>
    /\ StrGet(envs, n_timeout) = s_5000
    /\ Get(ret, n_timeout) = IntV(5000)
    /\ GetInt(ret, n_timeout).v = IntV(5000)

\* the document os.Open gave, when the file was opened and decoded
IsMapValue(v) == v.t = "map[string]interface {}"
OpenedDocs == { files[path].doc : path \in { q \in opened \cap DOMAIN files : files[q].valid } }

\* C9: with a non-empty root node that the decoded document maps to a
\* mapping, the document's values are those of that mapping and no others;
\* with a root node that is absent or no mapping, no Config is returned;
\* with an empty root node the whole decoded document is used. A String
\* parameter that only the document supplies resolves to the value found in
\* that scope.
C9_RootNodeScoping ==
    \A doc \in OpenedDocs :
      /\ (configNode # <<>> /\ IsMapValue(MapGet(doc, configNode))) =>
           /\ pc # "exit" => configFileVals = MapGet(doc, configNode).m
           /\ FullySucceeded =>
                \A param \in DOMAIN params :
                  (/\ params[param].Type = PARAM_STRING
                   /\ StdinValue(param) = Nil
                   /\ WinningRaw(param) = <<>>
                   /\ MapGet(MapGet(doc, configNode).m, param) # Nil) =>
                    Get(ret, param) = MapGet(MapGet(doc, configNode).m, param)
      /\ (configNode # <<>> /\ ~IsMapValue(MapGet(doc, configNode))) =>
           pc = "exit" /\ ~Returned /\ configFileVals = EmptyMap
      /\ (configNode = <<>> /\ pc # "exit") => configFileVals = doc

\* C9 witness: document {"app": {"port": ":9090", ...}, "port": ":1", ...}
\* and root node "app" resolved the required String parameter port to
\* ":9090"
C9_Witness ==
    /\ FullySucceeded
    /\ configNode = s_app
    /\ OpenedDocs = {DocExample}
    /\ n_port \in DOMAIN params
    /\ params[n_port].Required
    /\ Get(ret, n_port) = StrV(s_p9090)

\* the value a kind-specific getter is to return
ZeroOf(fn) ==
    CASE fn = "GetInt" -> IntV(0)
      [] fn = "GetBool" -> BoolV(FALSE)
      [] fn = "GetString" -> StrV(<<>>)
KindOf(fn) ==
    CASE fn = "GetInt" -> "int"
      [] fn = "GetBool" -> "bool"
      [] fn = "GetString" -> "string"

\* C10 (as claimed): on every returned Config and for every name, GetInt,
\* GetBool and GetString return the stored value when it has their kind and
\* else 0, false and "", and never panic, also when nothing is stored.
C10_GettersNeverFail ==
    got.fn \in {"GetInt", "GetBool", "GetString"} =>
      /\ ~got.panic
      /\ got.v = IF Get(ret, got.key).t = KindOf(got.fn)
                 THEN Get(ret, got.key) ELSE ZeroOf(got.fn)
\* no layer holds a value for the parameter: no default, no document
\* value, no environment variable, no command-line value
NoValueAnywhere(param) ==
    /\ DefaultOf(param) = Nil
    /\ FileValue(param) = Nil
    /\ StdinValue(param) = Nil
    /\ Getenv(param) = <<>>
    /\ CmdValue(param) = <<>>

\* the kinds for which the claim names a zero value, and that value
ZeroKinds ==
    {PARAM_STRING, PARAM_CONFIG_JSON_FILE, PARAM_CONFIG_NODE, PARAM_INT,
     PARAM_BOOL, PARAM_USAGE, PARAM_CONFIG_READ_ENV, PARAM_CONFIG_JSON_STDIN}
ZeroOfKind(type) ==
    IF type \in {PARAM_STRING, PARAM_CONFIG_JSON_FILE, PARAM_CONFIG_NODE}
    THEN StrV(<<>>)
    ELSE IF type = PARAM_INT THEN IntV(0)
    ELSE BoolV(FALSE)

\* C11 (as claimed): after a successful full resolution every parameter
\* that is not required and has no value in any layer holds a value, the
\* zero value of its kind: "" for String, document path and root node, 0
\* for Int, false for Bool, usage flag, environment gate and stdin flag.
C11_ZeroValueEveryKind ==
    FullySucceeded =>
      \A param \in DOMAIN params :
        (~params[param].Required /\ NoValueAnywhere(param)) =>
          /\ Get(ret, param) # Nil
          /\ params[param].Type \in ZeroKinds =>
               Get(ret, param) = ZeroOfKind(params[param].Type)

\* C11 (amended): the same for the eight kinds the claim names; a
\* PARAM_OBJECT parameter in that case holds no value, Get returns nil.
C11_ZeroValueNamedKinds ==
    FullySucceeded =>
      \A param \in DOMAIN params :
        (~params[param].Required /\ NoValueAnywhere(param)) =>
          IF params[param].Type \in ZeroKinds
          THEN Get(ret, param) = ZeroOfKind(params[param].Type)
          ELSE param \notin DOMAIN ret.values

\* C11 witness: a full resolution of a catalog without defaults and with
\* no value anywhere, whose parameters of the eight kinds hold "", 0, false
C11_Witness ==
    /\ FullySucceeded
    /\ { params[param].Type : param \in DOMAIN params } = ZeroKinds \cup {PARAM_OBJECT}
    /\ \A param \in DOMAIN params : NoValueAnywhere(param)
    /\ Get(ret, n_port) = StrV(<<>>)
    /\ Get(ret, n_timeout) = IntV(0)
    /\ Get(ret, n_debug) = BoolV(FALSE)
    /\ Get(ret, n_obj) = Nil

\* the calls of a parameter's validator so far, and the values it was given
CallsOf(param) == { k \in 1..Len(validated) : validated[k][1] = param }
Validated(param) == { validated[k][2] : k \in CallsOf(param) }
\* the value is one the coercion leaves alone
IsCoerced(param, v) ==
    params[param].Type \in {PARAM_BOOL, PARAM_INT} => v.t # "string"
\* a validator that was called returned false
Rejected ==
    { k \in 1..Len(validated) :
        ~Validator(params[validated[k][1]].Validate, validated[k][2]) }
\* what NewConfig returns once a validator has returned false
RejectionReported ==
    \A k \in Rejected :
        /\ Returned
        /\ err = Errorf("Validation failed", validated[k][1])
        /\ ret = EmptyConfig

\* C12 (as claimed): in a successful full resolution every parameter that
\* carries a validator had it called exactly once, on the coerced value
\* that Get returns afterwards; and once a validator has returned false
\* NewConfig returns an error naming the parameter and an empty Config.
C12_EveryValidatorRuns ==
    /\ FullySucceeded =>
         \A param \in DOMAIN params :
           params[param].Validate # "nil" =>
             /\ Cardinality(CallsOf(param)) = 1
             /\ Validated(param) = {Get(ret, param)}
             /\ IsCoerced(param, Get(ret, param))
    /\ pc \in {"return", "panic"} => RejectionReported

\* C12 (amended): the same for every parameter that carries a validator
\* and holds a value; the validator of a parameter that holds none (a
\* PARAM_OBJECT parameter without a value in any layer) is not called.
C12_ValidatorRunsOnValue ==
    /\ FullySucceeded =>
         \A param \in DOMAIN params :
           params[param].Validate # "nil" =>
             IF param \in DOMAIN ret.values
             THEN /\ Cardinality(CallsOf(param)) = 1
                  /\ Validated(param) = {Get(ret, param)}
                  /\ IsCoerced(param, Get(ret, param))
             ELSE CallsOf(param) = {}
    /\ pc \in {"return", "panic"} => RejectionReported

\* C12 witness: the command line's "7" was validated as the int 7, once,
\* and Get returns it
C12_Witness ==
    /\ FullySucceeded
    /\ n_timeout \in DOMAIN params
    /\ params[n_timeout].Validate = "positiveNumber"
    /\ CmdValue(n_timeout) = s_7
    /\ validated = << <<n_timeout, IntV(7)>> >>
    /\ Get(ret, n_timeout) = IntV(7)

\* C12 witness of the failure: the validator returned false on the int 0
\* coerced from the command line's "0"
C12_WitnessRejected ==
    /\ Rejected # {}
    /\ Returned
    /\ ret = EmptyConfig
    /\ err = Errorf("Validation failed", n_timeout)

\* the outcomes the loop over the catalog can end with from the values vals
\* when the parameters td are still to come, over every order in which the
\* range can visit them: the value map and the error NewConfig returns
RECURSIVE LoopOutcomes(_, _)
LoopOutcomes(vals, td) ==
    IF td = {} THEN { [values |-> vals, err |-> NoErr] }
    ELSE UNION {
        LET layered == Layered(vals, param)
            coerced == Coerce(ZeroValue(layered, param), param)
        IN  IF MissingRequired(layered, param)
            THEN { [values |-> layered,
                    err |-> Errorf("Missing required parameter", param)] }
            ELSE IF /\ ValidatorCalled(coerced, param)
                    /\ ~Validator(params[param].Validate, coerced[param])
            THEN { [values |-> EmptyMap,
                    err |-> Errorf("Validation failed", param)] }
            ELSE LoopOutcomes(coerced, td \ {param})
        : param \in td }

\* C13 (as claimed): the outcome of NewConfig, its error and its value map,
\* is the same whatever the order in which the catalog is ranged: when
\* NewConfig returns from its loop, what it returns is the one outcome the
\* loop has over all orders.
C13_SameOutcomeAnyOrder ==
    (Returned /\ ~ShortCircuited /\ got = NoCall) =>
      LoopOutcomes(EmptyMap, DOMAIN params)
        = { [values |-> ret.values, err |-> err] }

\* the switches the last call of GetKeysWithPrefix returned
Spellings == [param \in DOMAIN got.v.m |-> got.v.m[param].s]

\* C14: GetKeysWithPrefix gives, for every parameter of the Config's
\* catalog, the prefix override (or "-" when there is none) followed by the
\* name; stripping that prefix from the switch gives the name again, and
\* the command-line matcher takes the switch for that parameter.
C14_SpellingRoundTrip ==
    got.fn = "GetKeysWithPrefix" =>
      /\ DOMAIN Spellings = DOMAIN ret.params
      /\ \A param \in DOMAIN ret.params :
            LET prefix == IF params[param].PrefixOverride = <<>>
                          THEN <<"-">> ELSE params[param].PrefixOverride
            IN  /\ Spellings[param] = prefix \o param
                /\ TrimPrefix(Spellings[param], prefix) = param
                /\ param \in Matching(params, Spellings[param])

\* C14 witness: the switches of a catalog with a "--" parameter and a "-"
\* parameter, --debug and -port
C14_Witness ==
    /\ got.fn = "GetKeysWithPrefix"
    /\ {n_debug, n_port} \subseteq DOMAIN Spellings
    /\ params[n_debug].PrefixOverride = dash2
    /\ Spellings[n_debug] = dash2 \o n_debug
    /\ params[n_port].PrefixOverride = <<>>
    /\ Spellings[n_port] = <<"-">> \o n_port

\* The stdin flag as the specification states it: a stdin-flag parameter
\* whose value, from the command line if given there and else its default,
\* is true.
IsTrue(v) ==
    \/ v = BoolV(TRUE)
    \/ v.t = "string" /\ v.s \in TrueStrings
StatedStdinOpen ==
    \E f \in GetParamKeysByType(params, PARAM_CONFIG_JSON_STDIN) :
        IsTrue(IF f \in DOMAIN args THEN StrV(args[f]) ELSE DefaultOf(f))

\* C15 (as claimed): standard input is decoded if and only if a stdin-flag
\* parameter's pre-resolved value is true; it is scoped by the root node of
\* the file; a value of the stdin document overrides the file's value and
\* the default, and the environment and the command line override it.
C15_StdinDocument ==
    /\ pc = "finalize" =>
         /\ stdinRead <=> StatedStdinOpen
         /\ stdinRead =>
              configStdinVals = parseJsonFromFile(stdinFile, configNode).config
    /\ FullySucceeded =>
         \A param \in DOMAIN params :
           StdinValue(param) # Nil =>
             Get(ret, param) =
               IF CmdValue(param) # <<>>
               THEN Derived(param, StrV(CmdValue(param)))
               ELSE IF StrGet(envs, param) # <<>>
               THEN Derived(param, StrV(StrGet(envs, param)))
               ELSE Derived(param, StdinValue(param))

\* C18 (as claimed): when the environment is to be read and gives a usage
\* flag, not named on the command line, a string that parses as true, a
\* NewConfig that got past the command line returns early with that flag
\* true and nothing else, no document opened or decoded.
C18_UsageFromEnvironment ==
    \A f \in GetParamKeysByType(params, PARAM_USAGE) :
      (/\ argi > Len(osArgs)
       /\ Getenv(f) \in TrueStrings
       /\ f \notin DOMAIN args
       /\ ~StatedGateClosed
       /\ Unmatched = {}) =>
        /\ pc \in {"processCommandLine", "return", "panic"}
        /\ pc # "processCommandLine" =>
             /\ Succeeded
             /\ ret.values = (f :> BoolV(TRUE))
             /\ opened = {}
             /\ ~stdinRead

\* C16 (as claimed): a Config that NewConfig returns with an error has an
\* empty value map, or holds a usage flag set to true and nothing else; it
\* holds no value of a parameter processed before the failure.
C16_NoPartialConfig ==
    (Returned /\ err # NoErr) =>
      \/ ret.values = EmptyMap
      \/ \E f \in GetParamKeysByType(params, PARAM_USAGE) :
            ret.values = (f :> BoolV(TRUE))

\* the last argument that names the parameter, and what follows its first
\* "=", verbatim
Naming(param) ==
    { k \in 1..Len(osArgs) : param \in Matching(params, osArgs[k]) }
LastNaming(param) ==
    osArgs[CHOOSE k \in Naming(param) : \A j \in Naming(param) : j <= k]
AfterFirstEq(token) ==
    LET first == CHOOSE k \in 1..Len(token) :
                    token[k] = "=" /\ \A j \in 1..(k - 1) : token[j] # "="
    IN  SubSeq(token, first + 1, Len(token))

\* C17 (as claimed): the value recorded for a switch written with "=" is
\* everything after the first "=", verbatim: -name=a=b records "a=b".
C17_ValueIsRestAfterFirstEq ==
    (argi > Len(osArgs) /\ Unmatched = {}) =>
      \A param \in DOMAIN params :
        (Naming(param) # {} /\ HasEq(LastNaming(param))) =>
          /\ param \in DOMAIN args
          /\ args[param] = AfterFirstEq(LastNaming(param))

\* the parameter is set only through the environment, which was read
OnlyFromEnvironment(param) ==
    envRead /\ param \notin DOMAIN args /\ StrGet(envs, param) # <<>>

\* C19 (as claimed): when the document path (or the root node) is set only
\* through an environment variable and the environment is read, the file
\* opened (the node selected) is the one the environment names, and Get
\* returns that same value for the parameter afterwards.
C19_LoadControlledByEnvironment ==
    (pc \in {"stdin", "finalize"} \/ FullySucceeded) =>
      /\ \A f \in GetParamKeysByType(params, PARAM_CONFIG_JSON_FILE) :
            OnlyFromEnvironment(f) =>
              /\ opened = {StrGet(envs, f)}
              /\ FullySucceeded => \A path \in opened : Get(ret, f) = StrV(path)
      /\ \A f \in GetParamKeysByType(params, PARAM_CONFIG_NODE) :
            OnlyFromEnvironment(f) =>
              /\ configNode = StrGet(envs, f)
              /\ FullySucceeded => Get(ret, f) = StrV(configNode)

\* the value that wins among the typed sources: the stdin document, the
\* document file, the default; nil when none has one
WinningTyped(param) ==
    IF StdinValue(param) # Nil THEN StdinValue(param)
    ELSE IF FileValue(param) # Nil THEN FileValue(param)
    ELSE DefaultOf(param)

\* C20 (as claimed): a Bool or Int parameter whose winning value comes from
\* the default or from a document, no value coming from the environment or
\* the command line, resolves to that value unchanged, with its type, also
\* when the value is a string.
C20_CoercionOnlyOfRawValues ==
    FullySucceeded =>
      \A param \in DOMAIN params :
        (/\ params[param].Type \in {PARAM_BOOL, PARAM_INT}
         /\ WinningRaw(param) = <<>>
         /\ WinningTyped(param) # Nil) =>
          Get(ret, param) = WinningTyped(param)

\* C21 (as claimed): a command-line value counts whenever the switch is
\* present. After a full resolution, every parameter that has an entry in
\* the command-line map, the empty entry of "-name=" included, resolves to
\* the value derived from that entry, and not to a value of the
\* environment, a document or the default.
C21_CommandLineEntryWins ==
    FullySucceeded =>
      \A param \in DOMAIN args :
        Get(ret, param) = Derived(param, StrV(args[param]))

\* the left side of an argument, and the two spellings of it that name a
\* parameter: the name behind the parameter's own prefix, and the name alone
\* (strings.TrimPrefix leaves a string without the prefix as it is)
LeftSide(token) == Split(token)[1]
Accepts(param, token) ==
    \/ LeftSide(token) = PrefixOf(params, param) \o param
    \/ LeftSide(token) = param
Accepted(token) == \E param \in DOMAIN params : Accepts(param, token)

\* C22: command-line matching is by exact name equality after prefix
\* stripping. Every argument the matcher went past has a left side that is
\* exactly a declared name, alone or behind that parameter's own prefix, and
\* every key of the command-line map is such a parameter; the argument the
\* matcher rejected is a spelling of no parameter, and an argument that is a
\* spelling of none (a proper prefix of a name, an extension of a name, a
\* name behind another parameter's prefix) is never gone past. Stated of
\* NewConfig's own steps: the accessors leave the matcher's variables alone.
C22_ExactNameMatch ==
    got = NoCall =>
      /\ \A k \in 1..(argi - 1) : Accepted(osArgs[k])
      /\ \A param \in DOMAIN args :
           \E k \in 1..Len(osArgs) : Accepts(param, osArgs[k])
      /\ (pc = "exit" /\ err.kind = "unsupported flag") =>
           /\ err.arg = osArgs[argi]
           /\ ~Accepted(err.arg)
      /\ (pc # "processCommandLine" /\ err.kind # "unsupported flag") =>
           /\ argi = Len(osArgs) + 1
           /\ \A param \in DOMAIN params :
                (\E k \in 1..Len(osArgs) : Accepts(param, osArgs[k]))
                  <=> param \in DOMAIN args

\* C22 witness: the matcher went past an exactly spelled switch and rejected
\* an argument whose left side extends a declared name, is a proper prefix
\* of one, or puts a name behind the other parameter's prefix
C22_Witness ==
    /\ pc = "exit"
    /\ err.kind = "unsupported flag"
    /\ argi = 2
    /\ \E param \in DOMAIN params :
         /\ LeftSide(err.arg) # PrefixOf(params, param) \o param
         /\ \/ HasPrefix(TrimPrefix(LeftSide(err.arg), default_prefix), param)
            \/ HasPrefix(param, TrimPrefix(LeftSide(err.arg), default_prefix))

\* the map processCommandLine builds from an argument list all of whose
\* arguments name a parameter: the loop of lines 908-936, argument by argument
RECURSIVE CommandLineMap(_, _)
CommandLineMap(argv, a) ==
    IF argv = <<>> THEN a
    ELSE CommandLineMap(Tail(argv),
           MapPut(a, CHOOSE param \in Matching(params, Head(argv)) : TRUE,
                  ArgValue(Split(Head(argv)))))

\* the reorderings of the command line that keep the arguments naming the
\* same parameter in their order
Reorderings ==
    { f \in [1..Len(osArgs) -> 1..Len(osArgs)] :
        /\ \A i, j \in 1..Len(osArgs) : i # j => f[i] # f[j]
        /\ \A i, j \in 1..Len(osArgs) :
             (i < j /\ Matching(params, osArgs[f[i]])
                         \cap Matching(params, osArgs[f[j]]) # {})
               => f[i] < f[j] }
Reordered(f) == [i \in 1..Len(osArgs) |-> osArgs[f[i]]]

\* C23: argument order affects the command-line map only through
\* last-write-wins. The map processCommandLine returns holds, for every
\* parameter some argument names and for no other, the value of the last
\* argument naming it; and every reordering of the arguments that keeps the
\* arguments naming the same parameter in their order yields the same map.
C23_LastWriteWins ==
    (CommandLineDone /\ Unmatched = {}) =>
      /\ DOMAIN args = { param \in DOMAIN params : Naming(param) # {} }
      /\ \A param \in DOMAIN args :
           args[param] = ArgValue(Split(LastNaming(param)))
      /\ \A f \in Reorderings : CommandLineMap(Reordered(f), EmptyMap) = args

\* C23 witness: the same parameter named twice with different values, the
\* value of the second recorded; or two parameters named in two arguments
C23_Witness ==
    /\ CommandLineDone
    /\ Len(osArgs) = 2
    /\ Unmatched = {}
    /\ \/ \E param \in DOMAIN args :
            /\ Naming(param) = {1, 2}
            /\ ArgValue(Split(osArgs[1])) # ArgValue(Split(osArgs[2]))
            /\ args[param] = ArgValue(Split(osArgs[2]))
       \/ \E f \in Reorderings : f[1] = 2

\* the string that wins for a Bool or an Int parameter, from the command
\* line or the environment, is malformed: no spelling of a boolean, no
\* base-10 integer string
Malformed(param) ==
    /\ WinningRaw(param) # <<>>
    /\ \/ params[param].Type = PARAM_BOOL /\ ParseBool(WinningRaw(param)).err
       \/ params[param].Type = PARAM_INT /\ ~IsBase10(WinningRaw(param))
\* false for a Bool parameter, 0 for an Int parameter
ZeroOfParam(param) ==
    IF params[param].Type = PARAM_BOOL THEN BoolV(FALSE) ELSE IntV(0)

\* C24 (as claimed): a malformed string for a Bool or an Int parameter never
\* makes the resolution fail: NewConfig does not return an error about that
\* parameter, and after a full resolution the parameter is the boolean false
\* or the int 0.
C24_LenientCoercion ==
    Returned =>
      \A param \in DOMAIN params :
        Malformed(param) =>
          /\ err.arg # param
          /\ FullySucceeded => Get(ret, param) = ZeroOfParam(param)

\* C24 (amended): the coercion itself reports nothing, and the parameter
\* becomes the boolean false or the int 0; that value then goes to the
\* parameter's validator like any other, and the only error NewConfig can
\* return about the parameter is that its validator rejected false or 0.
C24_LenientCoercionThenValidator ==
    Returned =>
      \A param \in DOMAIN params :
        Malformed(param) =>
          /\ FullySucceeded => Get(ret, param) = ZeroOfParam(param)
          /\ Validated(param) \subseteq {ZeroOfParam(param)}
          /\ err.arg = param =>
               /\ err.kind = "Validation failed"
               /\ ~Validator(params[param].Validate, ZeroOfParam(param))

\* C24 witness: a full resolution in which a Bool parameter and an Int
\* parameter were both given a malformed string and hold false and 0
C24_Witness ==
    /\ FullySucceeded
    /\ \E b, n \in DOMAIN params :
         /\ params[b].Type = PARAM_BOOL /\ Malformed(b)
         /\ params[n].Type = PARAM_INT /\ Malformed(n)
         /\ Get(ret, b) = BoolV(FALSE)
         /\ Get(ret, n) = IntV(0)

\* the first columns PrintUsage printed, and the longest switch spelling of
\* the catalog
Columns == { got.v.m[param].s : param \in DOMAIN got.v.m }
LongestSpelling ==
    LET lens == { Len(GetKeysWithPrefix(ret)[param]) :
                    param \in DOMAIN ret.params }
    IN  CHOOSE n \in lens : \A l \in lens : l <= n

\* C25 (as claimed): in the output of PrintUsage the first column of every
\* row has one common width, which is at least the length of the longest
\* switch spelling of the catalog, prefix included, also when a parameter
\* carries a prefix override of more than one character.
C25_UsageColumnsAligned ==
    (got.fn = "PrintUsage" /\ ret.params # EmptyMap) =>
      /\ \A c1, c2 \in Columns : Len(c1) = Len(c2)
      /\ \A c1 \in Columns : Len(c1) >= LongestSpelling

\* what an accessor returns on the Config NewConfig returned, for the call
\* recorded in g
ResultOf(g) ==
    CASE g.fn = "Get" -> [panic |-> FALSE, v |-> Get(ret, g.key)]
      [] g.fn = "GetInt" -> GetInt(ret, g.key)
      [] g.fn = "GetBool" -> GetBool(ret, g.key)
      [] g.fn = "GetString" -> GetString(ret, g.key)
      [] g.fn = "GetKeysWithPrefix" ->
           [panic |-> FALSE,
            v |-> MapV([param \in DOMAIN ret.params |->
                          StrV(GetKeysWithPrefix(ret)[param])])]
      [] g.fn = "GetParamKeysByType" ->
           [panic |-> FALSE, v |-> KeysByType(ret, g.v.i)]
      [] g.fn = "PrintUsage" ->
           [panic |-> FALSE,
            v |-> MapV([param \in DOMAIN ret.params |->
                          StrV(PrintUsage(ret)[param])])]

UndeclaredInDocument == DOMAIN configFileVals \ DOMAIN params
UndeclaredInEnvironment == DOMAIN environ \ DOMAIN params

\* C27: in every Config NewConfig returns, on success, on failure or on the
\* usage short-circuit, each key of the value map is a declared parameter
\* name; Get on an undeclared name gives nil, from the map and from a call.
C27_OnlyDeclaredKeys ==
    Returned =>
      /\ DOMAIN ret.values \subseteq DOMAIN params
      /\ DOMAIN values \subseteq DOMAIN params
      /\ Get(ret, Undeclared) = Nil
      /\ (got.fn = "Get" /\ got.key \notin DOMAIN params) => got.v = Nil

\* C27 witness: a full resolution that read a document and an environment
\* which both hold an undeclared key, and a Get of that key that gave nil
C27_Witness ==
    /\ FullySucceeded
    /\ envRead
    /\ Undeclared \in UndeclaredInDocument
    /\ Undeclared \in UndeclaredInEnvironment
    /\ got.fn = "Get"
    /\ got.key = Undeclared
    /\ got.v = Nil

\* the kinds whose value is a truth value, and the truth value supplied for
\* a parameter: by the string that wins on the command line or in the
\* environment when it is a spelling of a boolean, else by the boolean of
\* the document or of the default
FlagKinds ==
    {PARAM_BOOL, PARAM_USAGE, PARAM_CONFIG_READ_ENV, PARAM_CONFIG_JSON_STDIN}
BoolSupplied(param) ==
    IF WinningRaw(param) # <<>> THEN ~ParseBool(WinningRaw(param)).err
    ELSE WinningTyped(param).t = "bool"
SuppliedTruth(param) ==
    IF WinningRaw(param) # <<>> THEN ParseBool(WinningRaw(param)).value
    ELSE WinningTyped(param).b

\* C28 (as claimed): after a full resolution every parameter of kind Bool,
\* UsageFlag, ReadEnvFlag or stdin flag that was supplied a boolean, or a
\* string that spells one, holds that truth value as a native boolean, and
\* GetBool returns it: --help=false leaves the boolean false.
C28_FlagsAreNativeBooleans ==
    FullySucceeded =>
      \A param \in DOMAIN params :
        (params[param].Type \in FlagKinds /\ BoolSupplied(param)) =>
          /\ Get(ret, param) = BoolV(SuppliedTruth(param))
          /\ GetBool(ret, param) =
               [panic |-> FALSE, v |-> BoolV(SuppliedTruth(param))]

\* the usage flags the command line gives a value that is no boolean, and
\* those it gives a value that parses as false
UsageMalformed ==
    { f \in GetParamKeysByType(params, PARAM_USAGE) :
        f \in DOMAIN args /\ ParseBool(args[f]).err }
UsageFalse ==
    { f \in GetParamKeysByType(params, PARAM_USAGE) :
        f \in DOMAIN args /\ ~ParseBool(args[f]).err
          /\ ~ParseBool(args[f]).value }

\* C29: once the command line is processed, a usage flag whose value is no
\* boolean makes NewConfig stop with the ParseBool error of that value: no
\* Config is returned, and neither the environment nor the document file
\* nor stdin has been read. That error comes from a usage flag only, never
\* from a Bool parameter. A usage flag whose value parses as false, none
\* being true or malformed, does not short-circuit: NewConfig goes on to the
\* environment, and a Config returned without error is a full resolution.
C29_UsageFlagParseError ==
    (argi > Len(osArgs) /\ pc # "processCommandLine") =>
      /\ UsageMalformed # {} =>
           /\ pc = "exit"
           /\ ~Returned
           /\ err.kind = "ParseBool"
           /\ \E f \in UsageMalformed : err.arg = args[f]
           /\ ~envRead /\ ~stdinRead /\ opened = {}
           /\ values = EmptyMap
      /\ err.kind = "ParseBool" => UsageMalformed # {}
      /\ (UsageFalse # {} /\ UsageDeciding(params, args) = {}) =>
           /\ ~ShortCircuited
           /\ Succeeded => FullySucceeded

\* C29 witness: --help=maybe stopped NewConfig although an environment and
\* a document file were there to be read
C29_Witness ==
    /\ pc = "exit"
    /\ err.kind = "ParseBool"
    /\ UsageMalformed # {}
    /\ environ # EmptyMap
    /\ files # EmptyMap
    /\ ~envRead
    /\ opened = {}

\* the arguments that set a usage flag to true
UsageSwitches ==
    { k \in 1..Len(osArgs) :
        \E f \in GetParamKeysByType(params, PARAM_USAGE) :
          /\ f \in Matching(params, osArgs[k])
          /\ ParseBool(ArgValue(Split(osArgs[k]))).value }

\* C30: the whole command line is validated before anything else. With an
\* unrecognized switch at any position, before or after a usage switch that
\* is true, NewConfig never performs the usage short-circuit (no Config is
\* returned and no value is set), never reads the environment and never
\* opens the document file or stdin.
C30_CommandLineValidatedFirst ==
    Unmatched # {} =>
      /\ ~Returned
      /\ ~ShortCircuited
      /\ values = EmptyMap
      /\ envs = EmptyMap /\ ~envRead
      /\ opened = {}
      /\ ~stdinRead /\ configStdinVals = EmptyMap /\ configFileVals = EmptyMap
      /\ todo = DOMAIN params
      /\ err.kind \in {"nil", "unsupported flag"}

\* C30 witness: NewConfig stopped at an unrecognized switch that follows a
\* usage switch set to true
C30_Witness ==
    /\ pc = "exit"
    /\ err.kind = "unsupported flag"
    /\ Len(osArgs) = 2
    /\ UsageSwitches = {1}
    /\ Unmatched = {2}
    /\ values = EmptyMap
====
